---- MODULE Spec2Model ----
(***************************************************************************)
(* Segment lookup argument (ark-segmentlookup): parameter generation,      *)
(* witness construction, the prover and the Multi-Unity sub-protocol.      *)
(*                                                                         *)
(* Scalars are elements of a prime field Fr.  G1 and G2 have prime order   *)
(* |Fr|, so a group element is represented by its discrete logarithm with  *)
(* respect to the group generator: [x]_1 and [x]_2 are the scalar x, the   *)
(* identity is 0, and a product of pairings  prod e(a_i, b_i)  is the      *)
(* target group's identity exactly when  sum a_i * b_i = 0  in Fr.         *)
(* Polynomials are coefficient sequences, lowest degree first, without     *)
(* trailing zero coefficients (ark_poly's DensePolynomial).                *)
(***************************************************************************)
EXTENDS Integers, Sequences, FiniteSets, TLC

\* ------------------------------------------------------------- the field
\* The scalar field E::Fr: a prime field whose multiplicative group has
\* order 2^TwoAdicity, generated by TwoAdicRoot.
P == 17
TwoAdicity == 4
TwoAdicRoot == 3

FAdd(a, b) == (a + b) % P
FSub(a, b) == (a + P - b) % P
FNeg(a) == (P - a) % P
FMul(a, b) == (a * b) % P
FSquare(a) == (a * a) % P

RECURSIVE FPow(_, _)
FPow(a, e) == IF e = 0 THEN 1 ELSE FMul(a, FPow(a, e - 1))

\* Field::inverse(): None for zero, is modelled by FIsZero and FInv apart.
FIsZero(a) == a % P = 0
FInv(a) == FPow(a, P - 2)
FDiv(a, b) == FMul(a, FInv(b))
FromU64(m) == m % P

\* ------------------------------------------------------------- sequences
\* A Vec built from an index-to-element rule, every element computed once.
Vec(f) == <<>> \o f

RECURSIVE SumSeq(_)
SumSeq(s) == IF s = <<>> THEN 0 ELSE FAdd(Head(s), SumSeq(Tail(s)))

Max(a, b) == IF a >= b THEN a ELSE b
Min(a, b) == IF a <= b THEN a ELSE b

IsPowerOfTwo(m) == m \in {1, 2, 4, 8, 16, 32, 64}

RECURSIVE NextPowerOfTwo(_)
NextPowerOfTwo(m) == IF m <= 1 THEN 1 ELSE 2 * NextPowerOfTwo((m + 1) \div 2)

RECURSIVE TrailingZeros(_)
TrailingZeros(m) == IF m % 2 = 1 THEN 0 ELSE 1 + TrailingZeros(m \div 2)

\* ----------------------------------------------------------- polynomials
RECURSIVE Trim(_)
Trim(p) ==
    IF p = <<>> THEN <<>>
    ELSE IF p[Len(p)] = 0 THEN Trim(SubSeq(p, 1, Len(p) - 1)) ELSE p

Coeff(p, i) == IF i >= 1 /\ i <= Len(p) THEN p[i] ELSE 0

PFromCoeffs(c) == Trim(Vec([i \in 1..Len(c) |-> c[i] % P]))
PConst(c) == Trim(<<c % P>>)
PAdd(p, q) == Trim(Vec([i \in 1..Max(Len(p), Len(q)) |-> FAdd(Coeff(p, i), Coeff(q, i))]))
PSub(p, q) == Trim(Vec([i \in 1..Max(Len(p), Len(q)) |-> FSub(Coeff(p, i), Coeff(q, i))]))
PScale(c, p) == Trim(Vec([i \in 1..Len(p) |-> FMul(c, p[i])]))

PMul(p, q) ==
    IF p = <<>> \/ q = <<>> THEN <<>>
    ELSE Trim(Vec([i \in 1..(Len(p) + Len(q) - 1) |->
             SumSeq(Vec([j \in 1..Len(p) |-> FMul(p[j], Coeff(q, i - j + 1))]))]))

RECURSIVE PEvalFrom(_, _, _)
PEvalFrom(p, x, i) ==
    IF i > Len(p) THEN 0 ELSE FAdd(p[i], FMul(x, PEvalFrom(p, x, i + 1)))
PEval(p, x) == PEvalFrom(p, x, 1)

\* DenseOrSparsePolynomial::divide_with_q_and_r for a monic divisor d:
\* schoolbook division, <<quotient, remainder>>.
RECURSIVE PDivRem(_, _, _)
PDivRem(q, r, d) ==
    IF Len(r) < Len(d) THEN <<q, r>>
    ELSE LET sh == Len(r) - Len(d)
             c  == r[Len(r)]
             t  == Vec([i \in 1..(sh + 1) |-> IF i = sh + 1 THEN c ELSE 0])
         IN  PDivRem(PAdd(q, t), PSub(r, PMul(t, d)), d)
DivideWithQAndR(p, d) == PDivRem(<<>>, p, d)
PDiv(p, d) == DivideWithQAndR(p, d)[1]

\* X^m - 1 and X - a
VanishingPoly(m) == Vec([i \in 1..(m + 1) |-> IF i = 1 THEN P - 1 ELSE IF i = m + 1 THEN 1 ELSE 0])
Linear(a) == <<FNeg(a), 1>>

\* ---------------------------------------------------------------- domains
\* Radix2EvaluationDomain::new(num_coeffs): the size is rounded up to a power
\* of two; None when the field has no subgroup of that size.
NoDomain == [size |-> 0, gen |-> 0]
DomainNew(num_coeffs) ==
    LET size == NextPowerOfTwo(num_coeffs)
    IN  IF TrailingZeros(size) > TwoAdicity THEN NoDomain
        ELSE [size |-> size, gen |-> FPow(TwoAdicRoot, (2 ^ TwoAdicity) \div size)]

\* domain.element(i), i from 0, and domain.elements().collect()
Element(d, i) == FPow(d.gen, i % d.size)
RootsOfUnity(d) == Vec([i \in 1..d.size |-> Element(d, i - 1)])

\* K = {v^(i*s) : 0 <= i < k}, the sub-domain of V of order k.
CreateSubDomain(domain_v, order, segment_size) ==
    [size |-> order, gen |-> FPow(domain_v.gen, segment_size)]

\* domain.fft(coeffs): the evaluations over the domain (coeffs resized to the
\* domain's size); domain.ifft(evals): the coefficients of the interpolant.
Resize(v, m) == Vec([i \in 1..m |-> Coeff(v, i)])
Fft(d, coeffs) == Vec([i \in 1..d.size |-> PEval(Resize(coeffs, d.size), Element(d, i - 1))])
Ifft(d, evals) ==
    LET e == Resize(evals, d.size)
        ninv == FInv(FromU64(d.size))
        ginv == FInv(d.gen)
    IN  Vec([j \in 1..d.size |->
            FMul(ninv, SumSeq(Vec([i \in 1..d.size |->
                 FMul(e[i], FPow(ginv, ((i - 1) * (j - 1)) % d.size))])))])
Interpolate(d, evals) == PFromCoeffs(Ifft(d, evals))

\* domain.vanishing_polynomial() and its value at x
DomainVanishingPoly(d) == VanishingPoly(d.size)
EvalVanishing(d, x) == FSub(FPow(x, d.size), 1)

\* The i-th Lagrange basis polynomial of the domain (i from 0), and the scalar
\* that the commitment [L_i(tau)]_1 stands for.
LagrangePoly(d, i) == Interpolate(d, Vec([j \in 1..d.size |-> IF j = i + 1 THEN 1 ELSE 0]))
LagrangeAt(d, i, x) == PEval(LagrangePoly(d, i), x)

\* ------------------------------------------------------------------- KZG
\* The SRS [tau^i]_1 (and [tau^i]_2) for i in 0..len-1.
Srs(tau, len) == Vec([i \in 1..len |-> FPow(tau, i - 1)])
\* VariableBaseMSM::multi_scalar_mul: pairs beyond the shorter list are dropped.
Msm(bases, scalars) ==
    SumSeq(Vec([i \in 1..Min(Len(bases), Len(scalars)) |-> FMul(bases[i], scalars[i])]))
\* Kzg::commit_g1(srs, poly) = [poly(tau)]_1
CommitG1(srs, poly) == Msm(srs, poly)

\* CaulkKzg::bi_poly_commit_g1(srs, polys, deg_x): the commitment of
\* sum_i X^i * polys[i](Y), each polys[i] padded to deg_x coefficients and laid
\* out one after the other over the SRS.  Fails when the SRS is too short.
RECURSIVE Concat(_)
Concat(ss) == IF ss = <<>> THEN <<>> ELSE Head(ss) \o Concat(Tail(ss))
PadTo(p, m) == Vec([i \in 1..Max(Len(p), m) |-> Coeff(p, i)])
BiPolyFormatted(polys, deg_x) == Concat(Vec([i \in 1..Len(polys) |-> PadTo(polys[i], deg_x)]))
BiPolyFits(srs, polys, deg_x) == Len(srs) >= Len(BiPolyFormatted(polys, deg_x))
BiPolyCommitG1(srs, polys, deg_x) == Msm(srs, BiPolyFormatted(polys, deg_x))

\* The partial evaluation sum_i alpha^i * polys[i] of a bivariate polynomial at
\* X = alpha, and the quotient of (P(X,Y) - P(alpha,Y)) by (X - alpha), one
\* polynomial in Y per power of X.
PartialEval(polys, alpha) ==
    LET RECURSIVE Acc(_)
        Acc(i) == IF i > Len(polys) THEN <<>>
                  ELSE PAdd(PScale(FPow(alpha, i - 1), polys[i]), Acc(i + 1))
    IN  Acc(1)
WitnessBipolynomial(polys, alpha) ==
    LET m == Len(polys)
        RECURSIVE Q(_)
        Q(i) == IF i = m - 1 THEN polys[m]
                ELSE PAdd(polys[i + 1], PScale(alpha, Q(i + 1)))
    IN  Vec([i \in 1..Max(m - 1, 0) |-> Q(i)])

\* CaulkKzg::partial_open_g1(srs, polys, deg_x, point):
\* ([P(point, tau)]_1, opening proof, P(point, Y)).
PartialOpenG1(srs, polys, deg_x, point) ==
    LET partial == PartialEval(polys, point)
        wit == WitnessBipolynomial(polys, point)
    IN  IF ~BiPolyFits(srs, wit, deg_x) THEN [tag |-> "Panic", com |-> 0, pi |-> 0, poly |-> <<>>]
        ELSE [tag |-> "Ok", com |-> Msm(srs, partial),
              pi |-> BiPolyCommitG1(srs, wit, deg_x), poly |-> partial]

\* CaulkKzg::partial_verify_defer_pairing_g1: the two pairing inputs of
\* e(C - C_alpha, [1]_2) = e(pi, [tau^deg_x - alpha]_2).
PartialVerifyDeferPairingG1(srs_g2, c_com, deg_x, point, partial_eval, pi) ==
    << <<FSub(c_com, partial_eval), srs_g2[1]>>,
       <<pi, FNeg(FSub(srs_g2[deg_x + 1], FMul(point, srs_g2[1])))>> >>

\* Opening points must be pairwise distinct: the opening divides by their
\* differences.
Distinct(points) ==
    \A i, j \in 1..Len(points) : i # j => points[i] # points[j]
ProdOthers(points, j) ==
    LET RECURSIVE Pr(_)
        Pr(i) == IF i > Len(points) THEN 1
                 ELSE IF i = j THEN Pr(i + 1)
                 ELSE FMul(FSub(points[j], points[i]), Pr(i + 1))
    IN  Pr(1)
\* A degree bound max_deg = d moves the proof to the top d powers of the SRS;
\* NoBound stands for None (d = the SRS's length).
NoBound == 0 - 1
DegShift(srs, max_deg) == IF max_deg = NoBound THEN 0 ELSE Len(srs) - max_deg

\* CaulkKzg::batch_open_g1(srs, poly, max_deg, points): the evaluations and
\* one proof, the sum of the single-point proofs [poly / (X - p_j)]_1 divided
\* by prod_{i # j} (p_j - p_i).
BatchOpenG1(srs, poly, max_deg, points) ==
    LET sh == DegShift(srs, max_deg)
        top == IF sh >= 0 /\ sh <= Len(srs) THEN SubSeq(srs, sh + 1, Len(srs)) ELSE <<>>
        wit(j) == PDiv(poly, Linear(points[j]))
        fits == /\ sh >= 0 /\ sh <= Len(srs)
                /\ \A j \in 1..Len(points) : Len(top) >= Len(wit(j))
    IN  IF ~fits \/ ~Distinct(points)
        THEN [tag |-> "Panic", evals |-> <<>>, pi |-> 0]
        ELSE [tag |-> "Ok",
              evals |-> Vec([j \in 1..Len(points) |-> PEval(poly, points[j])]),
              pi |-> SumSeq(Vec([j \in 1..Len(points) |->
                        FDiv(Msm(top, wit(j)), ProdOthers(points, j))]))]

\* The polynomial through (points[i], evals[i]) and prod (X - points[i]).
PointsVanishing(points) ==
    LET RECURSIVE Pr(_)
        Pr(i) == IF i > Len(points) THEN <<1>> ELSE PMul(Linear(points[i]), Pr(i + 1))
    IN  Pr(1)
LagrangeTau(points, evals) ==
    LET prod == PointsVanishing(points)
        term(i) == LET temp == PDiv(prod, Linear(points[i]))
                   IN  PScale(FMul(FInv(PEval(temp, points[i])), evals[i]), temp)
        RECURSIVE Acc(_)
        Acc(i) == IF i > Len(points) THEN <<>> ELSE PAdd(term(i), Acc(i + 1))
    IN  Acc(1)

\* CaulkKzg::verify_defer_pairing_g1: the two pairing inputs of
\* e([I(tau)]_1 - C, [tau^(N-d)]_2) * e(pi, [Z(tau)]_2) = 1.
VerifyDeferPairingG1(srs_g1, srs_g2, c_com, max_deg, points, evals, pi) ==
    LET lagrange_tau == LagrangeTau(points, evals)
        z_tau == PointsVanishing(points)
        sh == DegShift(srs_g1, max_deg)
        ok == /\ Distinct(points)
              /\ Len(srs_g1) >= Len(lagrange_tau)
              /\ Len(srs_g2) >= Len(z_tau)
              /\ sh >= 0 /\ sh < Len(srs_g2)
    IN  IF ~ok THEN [tag |-> "Panic", pairs |-> <<>>]
        ELSE [tag |-> "Ok",
              pairs |-> << <<FSub(Msm(srs_g1, lagrange_tau), c_com), srs_g2[sh + 1]>>,
                           <<pi, Msm(srs_g2, z_tau)>> >>]

\* ------------------------------------------------------- model parameters
\* setup is called with n in 1..MaxSegments, k and s powers of two, and a
\* trapdoor tau in TauChoices.  Challenges, blinding scalars and the
\* verifier's batching scalar are drawn from 0..MaxChallenge, 0..MaxBlind and
\* 1..MaxZeta; evaluations of an arbitrary D from 0..MaxEval.  A table holds
\* consecutive values from a base in TableBaseChoices; the indices handed to
\* Witness::new range up to n + MaxExtraSegments - 1, and the table handed to
\* it may be one built for MaxExtraSegments more segments.  A proof made up
\* by an adversary holds group elements and scalars from 0..MaxForged.
MaxSegments == 4
TauChoices == {3}
MaxChallenge == 2
MaxBlind == 1
MaxZeta == 2
MaxEval == 3
MaxExtraSegments == 2
MaxForged == 1
TableBaseChoices == {0, 14}
WitnessSegmentChoices == {1, 2}
SegmentSizeChoices == {1, 2}
LargeTableChoices == {8}

VARIABLES
    pc,         \* the last operation that ran
    setupRes,   \* PublicParameters::setup's result
    table,      \* the Table and its preprocessed parameters
    witRes,     \* Witness::new's call and result
    dIn,        \* the polynomial D handed to multi_unity_prove
    muRes,      \* multi_unity_prove's result
    muVer,      \* multi_unity_verify's call and result
    proveRes    \* prove's call and result

vars == <<pc, setupRes, table, witRes, dIn, muRes, muVer, proveRes>>

None == [tag |-> "None"]

\* -------------------------------------------------- PublicParameters::setup
\* The commitments setup precomputes, by position i (from 0) of W or V.
\* q_{i,2} = [w^i / (n*s)]_1
G1Q2(domain_w, order_w, i) == FDiv(Element(domain_w, i), FromU64(order_w))
\* q_{i,3} = [(w^i / ns) * (tau^n - w^(i*n)) / (tau - w^i)]_1, the inverse of
\* zero replaced by zero (unwrap_or_else).
G1Q3(domain_w, num_table_segments, tau, i) ==
    LET w_i == Element(domain_w, i)
        inv_ns == FInv(FromU64(domain_w.size))
        d == FSub(tau, w_i)
        inv_tau_sub_w == IF FIsZero(d) THEN 0 ELSE FInv(d)
        tau_pow_n_sub == FSub(FPow(tau, num_table_segments), FPow(w_i, num_table_segments))
    IN  FMul(FMul(FMul(w_i, inv_ns), tau_pow_n_sub), inv_tau_sub_w)
\* g1_q3_list, and g1_q4_list: g1_q3_list shifted to the left by one.
G1Q3List(domain_w, order_w, num_table_segments, tau) ==
    Vec([i \in 1..order_w |-> G1Q3(domain_w, num_table_segments, tau, i - 1)])
G1Q4List(g1_q3_list) ==
    IF g1_q3_list = <<>> THEN <<>> ELSE Tail(g1_q3_list) \o <<Head(g1_q3_list)>>
\* lagrange_basis_g1(srs, domain) = [L_i(tau)]_1 for every i, and the same
\* basis committed at a scaled point: [L^W_i(tau / w)]_1, [L^V_i(tau * v)]_1.
LagrangeBasisG1(domain, x) ==
    Vec([i \in 1..domain.size |-> LagrangeAt(domain, i - 1, x)])
\* The Lagrange basis of domain_log_n and the identity polynomial over K.
LagrangeBasisLogN(domain_log_n) ==
    Vec([i \in 1..domain_log_n.size |-> LagrangePoly(domain_log_n, i - 1)])
IdentityPolyK(domain_k, num_witness_segments) ==
    Interpolate(domain_k, Vec([i \in 1..num_witness_segments |-> 1]))

SetupErr(e, work) == [tag |-> "Err", err |-> e, work |-> work, pp |-> None]

\* setup(rng, n, k, s), tau being the scalar the rng yields.  work lists the
\* steps that were computed before setup returned.
SetupResult(n, k, s, tau) ==
    LET max_power_of_tau == Max(n, k) * s - 1
        domain_w == DomainNew(n * s)
        domain_v == DomainNew(k * s)
        domain_k == CreateSubDomain(domain_v, k, s)
        log_num_segments == TrailingZeros(n)
        domain_log_n == DomainNew(log_num_segments)
        w1 == <<"tau", "srs">>
        w2 == w1 \o <<"domain_w", "g2_zw">>
        w3 == w2 \o <<"domain_v">>
        w4 == w3 \o <<"domain_k", "g1_q2_list", "g1_l_w_list",
                      "g1_l_w_opening_proofs_at_zero", "g1_l_v_list",
                      "g1_q3_list", "g1_q4_list">>
        w5 == w4 \o <<"domain_log_n", "lagrange_basis_log_n", "identity_poly_k">>
    IN  IF domain_w = NoDomain THEN SetupErr("FailedToCreateEvaluationDomain", w1)
        ELSE IF domain_v = NoDomain THEN SetupErr("FailedToCreateEvaluationDomain", w2)
        ELSE IF FIsZero(FromU64(domain_w.size)) THEN SetupErr("FailedToInverseFieldElement", w3)
        ELSE IF domain_log_n = NoDomain THEN SetupErr("FailedToCreateEvaluationDomain", w4)
        ELSE [tag |-> "Ok", err |-> "", work |-> w5,
              pp |-> [tag |-> "PublicParameters",
                      num_table_segments |-> n,
                      num_witness_segments |-> k,
                      segment_size |-> s,
                      table_element_size |-> n * s,
                      witness_element_size |-> k * s,
                      tau |-> tau,
                      g1_srs |-> Srs(tau, max_power_of_tau + 1),
                      g2_srs |-> Srs(tau, max_power_of_tau + 2),
                      g2_zw |-> EvalVanishing(domain_w, tau),
                      g1_q2_list |-> Vec([i \in 1..domain_w.size |->
                                             G1Q2(domain_w, n * s, i - 1)]),
                      g1_q3_list |-> G1Q3List(domain_w, n * s, n, tau),
                      g1_q4_list |-> G1Q4List(G1Q3List(domain_w, n * s, n, tau)),
                      g1_l_w_list |-> LagrangeBasisG1(domain_w, tau),
                      g1_l_w_div_w_list |->
                          LagrangeBasisG1(domain_w, FDiv(tau, domain_w.gen)),
                      g1_l_v_list |-> LagrangeBasisG1(domain_v, tau),
                      g1_l_v_mul_v_list |->
                          LagrangeBasisG1(domain_v, FMul(tau, domain_v.gen)),
                      domain_w |-> domain_w,
                      domain_v |-> domain_v,
                      domain_k |-> domain_k,
                      log_num_segments |-> log_num_segments,
                      domain_log_n |-> domain_log_n,
                      lagrange_basis_log_n |-> LagrangeBasisLogN(domain_log_n),
                      identity_poly_k |-> IdentityPolyK(domain_k, k)]]

\* ------------------------------------------------------ multi_unity_prove
MuPanic(why) == [tag |-> "Panic", err |-> why, proof |-> None]
MuErr(e) == [tag |-> "Err", err |-> e, proof |-> None]

\* A blinding term that does not vanish on K: the scalar itself.
BlindingConstant(vanishing_poly, rand_scalar) == PConst(rand_scalar)

\* blinded_vanishing_poly(vanishing_poly, rng): rand_scalar * Z_K(X)
BlindedVanishingPoly(vanishing_poly, rand_scalar) ==
    PFromCoeffs(Vec([i \in 1..Len(vanishing_poly) |-> FMul(vanishing_poly[i], rand_scalar)]))

\* U_l(X) for l = 1 .. log(n)-1: the evaluations of D over K squared l times,
\* interpolated, plus a blinded multiple of Z_K.  rands[l] is the scalar the
\* rng yields in round l.
SquaredEvaluations(d_evaluations, l) ==
    Vec([i \in 1..Len(d_evaluations) |-> FPow(d_evaluations[i], 2 ^ l)])
BlindedUPolyList(pp, d_evaluations, rands) ==
    Vec([l \in 1..(pp.log_num_segments - 1) |->
        PAdd(Interpolate(pp.domain_k, SquaredEvaluations(d_evaluations, l)),
             BlindedVanishingPoly(DomainVanishingPoly(pp.domain_k), rands[l]))])

\* U_bar's coefficient of X^c as a polynomial in Y:
\* sum over the blinded U_l of lagrange_basis[l] * (coefficient c of U_l).
\* The coefficient count is that of U_1; a shorter U_l is indexed out of bounds.
UBarIndexOk(u_blinded) ==
    \A l \in 1..Len(u_blinded) : Len(u_blinded[l]) >= Len(u_blinded[1])
UBarPartialYPolys(lagrange_basis, u_blinded) ==
    LET row(c) ==
          LET RECURSIVE Acc(_)
              Acc(l) == IF l > Len(u_blinded) THEN <<>>
                        ELSE PAdd(PScale(u_blinded[l][c], lagrange_basis[l + 1]), Acc(l + 1))
          IN  Acc(1)
    IN  Vec([c \in 1..Len(u_blinded[1]) |-> row(c)])

\* H_s(X) = (U_{s-1}(X)^2 - U_s(X)) / Z_K(X) for s = 1 .. log(n), over the
\* list D, U_1, ..., U_{log(n)-1}, id: <<quotient, remainder>> each.
HsDivisions(pp, u_poly_list) ==
    Vec([s \in 1..pp.log_num_segments |->
        DivideWithQAndR(PSub(PMul(u_poly_list[s], u_poly_list[s]), u_poly_list[s + 1]),
                        DomainVanishingPoly(pp.domain_k))])

\* H_2's coefficient of X^j as a polynomial in Y.  The coefficient count is
\* that of h_s_poly_list[1]; H_1 is padded with zeros (and cut when longer),
\* every later H_s is indexed as it is.
H2IndexOk(pp, h_s_poly_list) ==
    \A s \in 2..pp.log_num_segments : Len(h_s_poly_list[s]) >= Len(h_s_poly_list[2])
H2PartialYPolys(pp, lagrange_basis, h_s_poly_list) ==
    LET first(j) == PMul(PConst(Coeff(h_s_poly_list[1], j)), lagrange_basis[1])
        RECURSIVE Rest(_, _)
        Rest(j, s) == IF s > pp.log_num_segments THEN <<>>
                      ELSE PAdd(PMul(PConst(h_s_poly_list[s][j]), lagrange_basis[s]),
                                Rest(j, s + 1))
    IN  Vec([j \in 1..Len(h_s_poly_list[2]) |-> PAdd(first(j), Rest(j, 2))])

\* sum_{s in from..to} c(s) * lagrange_basis[s] with list positions from 1
LagrangeCombination(lagrange_basis, c, from, to) ==
    LET RECURSIVE Acc(_)
        Acc(s) == IF s > to THEN <<>>
                  ELSE PAdd(PMul(PConst(c[s]), lagrange_basis[s]), Acc(s + 1))
    IN  Acc(from)

\* The second half of multi_unity_prove, from the bivariate commitments on.
MultiUnityProveRounds(pp, u_poly_list, u_bar_partial_y_polys, h_s_poly_list, alpha, beta) ==
    LET srs == pp.g1_srs
        log_num_segments == pp.log_num_segments
        domain_log_n == pp.domain_log_n
        lagrange_basis == pp.lagrange_basis_log_n
        id_poly == u_poly_list[log_num_segments + 1]
        h_2_partial_y_polys == H2PartialYPolys(pp, lagrange_basis, h_s_poly_list)
        u_bar_com1 == BiPolyCommitG1(srs, u_bar_partial_y_polys, log_num_segments)
        h_2_com1 == BiPolyCommitG1(srs, h_2_partial_y_polys, log_num_segments)
        u_s_alpha == Vec([s \in 1..log_num_segments |-> PEval(u_poly_list[s], alpha)])
        u_alpha_poly == LagrangeCombination(lagrange_basis, u_s_alpha, 1, log_num_segments)
        u_sqr_alpha_list ==
            LagrangeCombination(lagrange_basis,
                                Vec([s \in 1..log_num_segments |-> FSquare(u_s_alpha[s])]),
                                1, log_num_segments)
        h_1_div == DivideWithQAndR(PSub(PMul(u_alpha_poly, u_alpha_poly), u_sqr_alpha_list),
                                   DomainVanishingPoly(domain_log_n))
        h_1_poly == h_1_div[1]
        h_1_com1 == Msm(srs, h_1_poly)
        u_alpha_beta == PEval(u_alpha_poly, beta)
        beta_shift == FMul(beta, Element(domain_log_n, 1))
        u_bar_alpha_shift_beta ==
            SumSeq(Vec([i \in 1..(log_num_segments - 1) |->
                       FMul(u_s_alpha[i + 1], PEval(lagrange_basis[i + 1], beta_shift))]))
        temp == FAdd(u_bar_alpha_shift_beta,
                     FMul(PEval(id_poly, alpha),
                          PEval(lagrange_basis[log_num_segments], beta)))
        poly_h_2_alpha ==
            LagrangeCombination(lagrange_basis,
                                Vec([s \in 1..Len(h_s_poly_list) |-> PEval(h_s_poly_list[s], alpha)]),
                                1, Len(h_s_poly_list))
        p_poly ==
            PSub(PSub(PSub(PConst(FSquare(u_alpha_beta)), PConst(temp)),
                      PMul(PConst(EvalVanishing(domain_log_n, beta)), h_1_poly)),
                 PMul(PConst(EvalVanishing(pp.domain_k, alpha)), poly_h_2_alpha))
        open1 == BatchOpenG1(srs, u_poly_list[1], NoBound, <<alpha>>)
        open2 == PartialOpenG1(srs, u_bar_partial_y_polys, domain_log_n.size, alpha)
        open3 == PartialOpenG1(srs, h_2_partial_y_polys, domain_log_n.size, alpha)
        open4 == BatchOpenG1(srs, open2.poly, domain_log_n.size - 1,
                             <<1, beta, FMul(beta, Element(domain_log_n, 1))>>)
        open5 == BatchOpenG1(srs, p_poly, domain_log_n.size - 1, <<beta>>)
    IN  IF ~H2IndexOk(pp, h_s_poly_list) THEN MuPanic("h_s_poly[j] out of bounds")
        ELSE IF ~BiPolyFits(srs, u_bar_partial_y_polys, log_num_segments)
                \/ ~BiPolyFits(srs, h_2_partial_y_polys, log_num_segments)
             THEN MuPanic("bi_poly_commit_g1: srs too short")
        ELSE IF h_1_div[2] # <<>> THEN MuErr("RemainderAfterDivisionIsNonZero")
        ELSE IF Len(srs) < Len(h_1_poly) THEN MuPanic("assert srs_g1.len() >= h_1_poly.len()")
        ELSE IF PEval(p_poly, beta) # 0 THEN MuPanic("assert p_poly(beta) == 0")
        ELSE IF open1.tag # "Ok" \/ open2.tag # "Ok" \/ open3.tag # "Ok" \/ open4.tag # "Ok"
             THEN MuPanic("kzg open")
        ELSE IF open4.evals[1] # 0 THEN MuPanic("assert eval_2_list[0] == 0")
        ELSE IF open5.tag # "Ok" THEN MuPanic("kzg open")
        ELSE IF open5.evals[1] # 0 THEN MuPanic("assert eval_3_list[0] == 0")
        ELSE [tag |-> "Ok", err |-> "",
              proof |-> [u_bar_com1 |-> u_bar_com1,
                         h_1_com1 |-> h_1_com1,
                         h_2_com1 |-> h_2_com1,
                         u_bar_alpha_com1 |-> open2.com,
                         h_2_alpha_com1 |-> open3.com,
                         v1 |-> open1.evals[1],
                         v2 |-> open4.evals[2],
                         v3 |-> open4.evals[3],
                         pi_1 |-> open1.pi,
                         pi_2 |-> open2.pi,
                         pi_3 |-> open3.pi,
                         pi_4 |-> open4.pi,
                         pi_5 |-> open5.pi]]

\* The index of the first H_s whose division leaves a remainder, 0 if none.
FirstRemainder(divs) ==
    LET bad == {s \in 1..Len(divs) : divs[s][2] # <<>>}
    IN  IF bad = {} THEN 0 ELSE CHOOSE s \in bad : \A r \in bad : s <= r

\* multi_unity_prove(pp, d_poly, rng, alpha, beta)
\* D(X) added to the front and the identity polynomial to the back.
AssembledUPolyList(d_poly, u_blinded, id_poly) == <<d_poly>> \o u_blinded \o <<id_poly>>

MultiUnityProve(pp, d_poly, rands, alpha, beta) ==
    LET log_num_segments == pp.log_num_segments
        d_evaluations == Fft(pp.domain_k, d_poly)
        u_blinded == BlindedUPolyList(pp, d_evaluations, rands)
        lagrange_basis == pp.lagrange_basis_log_n
        u_bar_partial_y_polys == UBarPartialYPolys(lagrange_basis, u_blinded)
        u_poly_list == AssembledUPolyList(d_poly, u_blinded, pp.identity_poly_k)
        divs == HsDivisions(pp, u_poly_list)
        h_s_poly_list == Vec([s \in 1..Len(divs) |-> divs[s][1]])
    IN  IF ~IsPowerOfTwo(pp.num_table_segments) THEN MuErr("InvalidNumerOfSegments")
        ELSE IF log_num_segments = 0 THEN MuPanic("log_num_segments - 1 overflows")
        ELSE IF Len(u_blinded) = 0 THEN MuPanic("u_poly_list[0] out of bounds")
        ELSE IF ~UBarIndexOk(u_blinded) THEN MuPanic("u_poly[coeff_index] out of bounds")
        ELSE IF FirstRemainder(divs) # 0 THEN MuErr("RemainderAfterDivisionIsNonZero")
        ELSE MultiUnityProveRounds(pp, u_poly_list, u_bar_partial_y_polys,
                                   h_s_poly_list, alpha, beta)

\* ----------------------------------------------------- multi_unity_verify
\* [check1, check2, check3, check4, check5].concat(), if every check
\* produced its pairing inputs.
ConcatChecks(check1, check2, check3, check4, check5) ==
    IF check1.tag # "Ok" \/ check4.tag # "Ok" \/ check5.tag # "Ok"
    THEN [tag |-> "Panic", pairs |-> <<>>]
    ELSE [tag |-> "Ok",
          pairs |-> check1.pairs \o check2 \o check3 \o check4.pairs \o check5.pairs]

\* multi_unity_verify_defer_pairing: the pairing inputs of the five KZG checks.
MultiUnityVerifyDeferPairing(pp, g1_u, pi_unity, alpha, beta) ==
    LET srs_g1 == pp.g1_srs
        srs_g2 == pp.g2_srs
        domain_log_n == pp.domain_log_n
        lagrange_basis_log_n == pp.lagrange_basis_log_n
        u_alpha_beta == FAdd(FMul(pi_unity.v1, PEval(lagrange_basis_log_n[1], beta)),
                             pi_unity.v2)
        p_com1 ==
            FSub(FSub(FMul(srs_g1[1],
                           FSub(FSquare(u_alpha_beta),
                                FAdd(pi_unity.v3,
                                     FMul(PEval(pp.identity_poly_k, alpha),
                                          PEval(lagrange_basis_log_n[pp.log_num_segments], beta))))),
                      FMul(pi_unity.h_1_com1, EvalVanishing(domain_log_n, beta))),
                 FMul(pi_unity.h_2_alpha_com1, EvalVanishing(pp.domain_k, alpha)))
        check1 == VerifyDeferPairingG1(srs_g1, srs_g2, g1_u, NoBound,
                                       <<alpha>>, <<pi_unity.v1>>, pi_unity.pi_1)
        check2 == PartialVerifyDeferPairingG1(srs_g2, pi_unity.u_bar_com1, domain_log_n.size,
                                              alpha, pi_unity.u_bar_alpha_com1, pi_unity.pi_2)
        check3 == PartialVerifyDeferPairingG1(srs_g2, pi_unity.h_2_com1, domain_log_n.size,
                                              alpha, pi_unity.h_2_alpha_com1, pi_unity.pi_3)
        check4 == VerifyDeferPairingG1(srs_g1, srs_g2, pi_unity.u_bar_alpha_com1,
                                       domain_log_n.size - 1,
                                       <<1, beta, FMul(beta, Element(domain_log_n, 1))>>,
                                       <<0, pi_unity.v2, pi_unity.v3>>, pi_unity.pi_4)
        check5 == VerifyDeferPairingG1(srs_g1, srs_g2, p_com1, domain_log_n.size - 1,
                                       <<beta>>, <<0>>, pi_unity.pi_5)
    IN  IF pp.log_num_segments = 0 \/ domain_log_n.size + 1 > Len(srs_g2)
        THEN [tag |-> "Panic", pairs |-> <<>>]
        ELSE ConcatChecks(check1, check2, check3, check4, check5)

\* A batching that weights the first check like the others: by a power of
\* (zeta - 1), which vanishes for zeta = 1.
ZetaWeightsFromFirstCheck(zeta) ==
    LET z0 == FSub(zeta, 1)
        z1 == zeta
        z2 == FSquare(z1)
        z3 == FSquare(z2)
        z4 == FSquare(z3)
    IN  <<z0, z0, z1, z1, z2, z2, z3, z3, z4, z4>>

\* A batching with sequential powers of zeta: check i is weighted by zeta^i.
ZetaWeightsSequential(zeta) ==
    LET z1 == zeta
        z2 == FMul(z1, zeta)
        z3 == FMul(z2, zeta)
        z4 == FMul(z3, zeta)
    IN  <<1, 1, z1, z1, z2, z2, z3, z3, z4, z4>>

\* The weight the G1 input of each pairing pair is multiplied by: zeta is
\* squared in place between two checks.
ZetaWeights(zeta) ==
    LET z1 == zeta
        z2 == FSquare(z1)
        z3 == FSquare(z2)
        z4 == FSquare(z3)
    IN  <<1, 1, z1, z1, z2, z2, z3, z3, z4, z4>>

\* E::product_of_pairings(inputs).is_one()
ProductOfPairingsIsOne(inputs) ==
    SumSeq(Vec([i \in 1..Len(inputs) |-> FMul(inputs[i][1], inputs[i][2])])) = 0

\* The G1 input of each pairing input multiplied by its weight, after the
\* assertion that there are ten of them, and the product of the pairings.
WeightedProductIsOne(deferred, weights) ==
    LET pairing_inputs == Vec([i \in 1..Len(deferred.pairs) |->
                              <<FMul(deferred.pairs[i][1], weights[i]), deferred.pairs[i][2]>>])
    IN  IF deferred.tag # "Ok" \/ Len(deferred.pairs) # 10 THEN "panic"
        ELSE IF ProductOfPairingsIsOne(pairing_inputs) THEN "true" ELSE "false"

\* multi_unity_verify(pp, u_com1, proof, rng, alpha, beta), zeta being the
\* scalar the rng yields: "true", "false" or "panic".
MultiUnityVerify(pp, u_com1, proof, zeta, alpha, beta) ==
    WeightedProductIsOne(MultiUnityVerifyDeferPairing(pp, u_com1, proof, alpha, beta),
                         ZetaWeights(zeta))

\* ------------------------------------------------------------ Table, Witness
\* Table.values: the n*s values of n segments of s values each.
TableValues(table_element_size, base, step) ==
    Vec([i \in 1..table_element_size |-> (base + step * (i - 1)) % P])
\* A table built for parameters with more segments: the same values followed
\* by the values of extra_segments further segments.
LargerTable(values, segment_size, extra_segments) ==
    values \o Vec([i \in 1..(extra_segments * segment_size) |-> 0])

\* Table::preprocess: q_{i,1} = [Q_{i,1}(tau)]_1 with
\* L^W_i(X) * (T(X) - t_i) = Z_W(X) * Q_{i,1}(X), by position i (from 0).
G1Q1List(pp, values) ==
    LET poly_t == Interpolate(pp.domain_w, values)
    IN  Vec([i \in 1..Len(values) |->
            CommitG1(pp.g1_srs,
                     PDiv(PMul(LagrangePoly(pp.domain_w, i - 1),
                               PSub(poly_t, PConst(values[i]))),
                          DomainVanishingPoly(pp.domain_w)))])

\* A count of queried indices that Witness::new turns down
CountCheckFailsOnlyWhenShort(len, num_witness_segments) == len < num_witness_segments

\* queried_segment_indices.len() != pp.num_witness_segments
CountCheckFails(len, num_witness_segments) == len # num_witness_segments

\* An element index that passes when it is the table's length
IndexPastTable(index, table_len) == index > table_len

\* index >= table.values.len()
IndexOutOfTable(index, table_len) == index >= table_len

\* The other order of the two loops: j outside, the queried segment inside.
TableElementIndicesByOffset(segment_size, queried_segment_indices) ==
    Vec([e \in 1..(Len(queried_segment_indices) * segment_size) |->
            queried_segment_indices[((e - 1) % Len(queried_segment_indices)) + 1] * segment_size
            + ((e - 1) \div Len(queried_segment_indices))])

\* segment_index * segment_size + j for every queried segment, j in 0..s-1,
\* in the order of the two loops.
TableElementIndices(segment_size, queried_segment_indices) ==
    Vec([e \in 1..(Len(queried_segment_indices) * segment_size) |->
            queried_segment_indices[((e - 1) \div segment_size) + 1] * segment_size
            + ((e - 1) % segment_size)])

\* The first position at which a sequence of flags is TRUE, 0 if none: the
\* iteration at which a loop returns early.
FirstTrue(flags) ==
    LET hits == {e \in 1..Len(flags) : flags[e]}
    IN  IF hits = {} THEN 0 ELSE CHOOSE e \in hits : \A f \in hits : e <= f

WitnessErr(e, arg) ==
    [tag |-> "Err", err |-> e, arg |-> arg, witness |-> None, table_reads |-> 0]

\* Witness::new(pp, table, queried_segment_indices).  table_reads counts the
\* reads of table.values[i] made before it returned.
WitnessNew(pp, values, queried_segment_indices) ==
    LET indices == TableElementIndices(pp.segment_size, queried_segment_indices)
        first_invalid ==
            FirstTrue(Vec([e \in 1..Len(indices) |-> IndexOutOfTable(indices[e], Len(values))]))
        first_unreadable ==
            FirstTrue(Vec([e \in 1..Len(indices) |-> indices[e] + 1 > Len(values)]))
        poly_eval_list_f == Vec([e \in 1..Len(indices) |-> values[indices[e] + 1]])
    IN  IF CountCheckFails(Len(queried_segment_indices), pp.num_witness_segments)
        THEN WitnessErr("InvalidNumberOfQueries", Len(queried_segment_indices))
        ELSE IF first_invalid # 0
        THEN WitnessErr("InvalidSegmentElementIndex", indices[first_invalid])
        ELSE IF first_unreadable # 0
        THEN [tag |-> "Panic", err |-> "table.values[i] out of bounds", arg |-> 0,
              witness |-> None, table_reads |-> first_unreadable - 1]
        ELSE [tag |-> "Ok", err |-> "", arg |-> 0,
              witness |-> [num_witness_segments |-> pp.num_witness_segments,
                           segment_size |-> pp.segment_size,
                           poly_f |-> Interpolate(pp.domain_v, poly_eval_list_f),
                           poly_eval_list_f |-> poly_eval_list_f,
                           segment_indices |-> queried_segment_indices],
              table_reads |-> Len(indices)]

\* A resize that pads a short vector and leaves a long one as it is.
VecExtendTo(v, new_len, value) ==
    Vec([i \in 1..Max(Len(v), new_len) |-> IF i <= Len(v) THEN v[i] ELSE value])

\* Vec::resize(new_len, value): truncated when longer, padded with value
\* when shorter.
VecResize(v, new_len, value) ==
    Vec([i \in 1..new_len |-> IF i <= Len(v) THEN v[i] ELSE value])

\* Witness::new_with_padding(pp, table, queried_segment_indices)
WitnessNewWithPadding(pp, values, queried_segment_indices) ==
    WitnessNew(pp, values, VecResize(queried_segment_indices, pp.num_witness_segments, 0))

\* ------------------------------------------------------------------ prove
\* i > num_segments
SegmentIndexRejected(i, num_segments) == i > num_segments

\* The keys of a BTreeMap in iteration order.
RECURSIVE SortedKeys(_)
SortedKeys(keys) ==
    IF keys = {} THEN <<>>
    ELSE LET least == CHOOSE a \in keys : \A b \in keys : a <= b
         IN  <<least>> \o SortedKeys(keys \ {least})

\* segment_multiplicities(queried_segment_indices, num_segments)
SegmentMultiplicities(queried_segment_indices, num_segments) ==
    LET first_rejected ==
            FirstTrue(Vec([e \in 1..Len(queried_segment_indices) |->
                SegmentIndexRejected(queried_segment_indices[e], num_segments)]))
        keys == SortedKeys({queried_segment_indices[e] : e \in 1..Len(queried_segment_indices)})
    IN  IF first_rejected # 0
        THEN [tag |-> "Err", err |-> "InvalidSegmentIndex",
              arg |-> queried_segment_indices[first_rejected], map |-> <<>>]
        ELSE [tag |-> "Ok", err |-> "", arg |-> 0,
              map |-> Vec([q \in 1..Len(keys) |->
                         [segment_index |-> keys[q],
                          multiplicity |-> Cardinality({e \in 1..Len(queried_segment_indices) :
                                               queried_segment_indices[e] = keys[q]})]])]

\* The table positions of the queried segments with their multiplicity, in
\* the order the loops over segment_multiplicities visit them.
TouchedElements(map, segment_size) ==
    Vec([e \in 1..(Len(map) * segment_size) |->
            LET entry == map[((e - 1) \div segment_size) + 1]
            IN  [elem_index |-> entry.segment_index * segment_size + ((e - 1) % segment_size),
                 multiplicity |-> entry.multiplicity]])

\* multiplicity_polynomials_and_quotient_g1: [M(tau)]_1, [M(tau / w)]_1 and
\* [Q_M(tau)]_1 as linear combinations of the precomputed commitments.
MultiplicityPolynomialsAndQuotientG1(map, g1_l_w_list, g1_l_w_div_w_list, g1_q3_list, g1_q4_list, segment_size) ==
    LET touched == TouchedElements(map, segment_size)
        shortest == Min(Min(Len(g1_l_w_list), Len(g1_l_w_div_w_list)),
                        Min(Len(g1_q3_list), Len(g1_q4_list)))
        term(list, e) == FMul(list[touched[e].elem_index + 1],
                              FromU64(touched[e].multiplicity))
        sum(list) == SumSeq(Vec([e \in 1..Len(touched) |-> term(list, e)]))
    IN  IF \E e \in 1..Len(touched) : touched[e].elem_index >= shortest
        THEN [tag |-> "Panic", err |-> "elem_index out of bounds"]
        ELSE [tag |-> "Ok", err |-> "",
              g1_m |-> sum(g1_l_w_list),
              g1_m_div_w |-> sum(g1_l_w_div_w_list),
              g1_q_m |-> FSub(sum(g1_q3_list), sum(g1_q4_list))]

\* The same three commitments computed densely, as
\* test_com1_multiplicity_polynomials_and_quotient does: M by inverse FFT of
\* its evaluations over W, M(X / w) by scaling M's coefficients, and
\* Q_M = (M(X) - M(X / w)) * (X^n - 1) / Z_W(X).
DenseMultiplicityPolynomialsAndQuotientG1(pp, map) ==
    LET multiplicity_of(segment_index) ==
            LET hits == {q \in 1..Len(map) : map[q].segment_index = segment_index}
            IN  IF hits = {} THEN 0 ELSE map[CHOOSE q \in hits : TRUE].multiplicity
        poly_eval_m_list ==
            Vec([j \in 1..pp.table_element_size |->
                    FromU64(multiplicity_of((j - 1) \div pp.segment_size))])
        poly_coeff_list_m == Ifft(pp.domain_w, poly_eval_m_list)
        poly_m == PFromCoeffs(poly_coeff_list_m)
        inv_generator_w == FInv(pp.domain_w.gen)
        poly_m_div_w == PFromCoeffs(Vec([i \in 1..Len(poly_coeff_list_m) |->
                            FMul(poly_coeff_list_m[i], FPow(inv_generator_w, i - 1))]))
        poly_q_m == PDiv(PMul(PSub(poly_m, poly_m_div_w), VanishingPoly(pp.num_table_segments)),
                         DomainVanishingPoly(pp.domain_w))
    IN  [g1_m |-> CommitG1(pp.g1_srs, poly_m),
         g1_m_div_w |-> CommitG1(pp.g1_srs, poly_m_div_w),
         g1_q_m |-> CommitG1(pp.g1_srs, poly_q_m)]

\* index_polynomials_and_quotients_g1: [L(tau)]_1, [L(tau * v)]_1, D and
\* [D(tau)]_1, [Q_L(tau)]_1 and [Q_D(tau)]_1.
IndexPolynomialsAndQuotientsG1(domain_w, domain_k, domain_v, g1_l_v_list, g1_l_v_mul_v_list, g1_srs, queried_segment_indices, witness_size, segment_size, num_queries) ==
    LET roots_of_unity_w == RootsOfUnity(domain_w)
        js == TableElementIndices(segment_size, queried_segment_indices)
        poly_eval_list_l == Vec([e \in 1..Len(js) |-> roots_of_unity_w[js[e] + 1]])
        poly_eval_list_d ==
            Vec([q \in 1..Len(queried_segment_indices) |->
                    roots_of_unity_w[queried_segment_indices[q] * segment_size + 1]])
        poly_d == PFromCoeffs(Ifft(domain_k, poly_eval_list_d))
        poly_coeff_list_l == Ifft(domain_v, poly_eval_list_l)
        roots_of_unity_v == RootsOfUnity(domain_v)
        poly_l_mul_v == PFromCoeffs(Vec([i \in 1..Len(poly_coeff_list_l) |->
                            FMul(poly_coeff_list_l[i], roots_of_unity_v[i])]))
        generator_w == roots_of_unity_w[2]
        poly_w_mul_l == PFromCoeffs(Vec([i \in 1..Len(poly_coeff_list_l) |->
                            FMul(poly_coeff_list_l[i], generator_w)]))
        poly_x_pow_k_sub_one ==
            PFromCoeffs(Vec([i \in 1..witness_size |->
                IF i = 1 THEN FNeg(1) ELSE IF i = num_queries + 1 THEN 1 ELSE 0]))
        poly_q_l == PMul(PDiv(PSub(poly_l_mul_v, poly_w_mul_l), DomainVanishingPoly(domain_v)),
                         poly_x_pow_k_sub_one)
        poly_l == PFromCoeffs(poly_coeff_list_l)
        poly_q_d == PDiv(PSub(poly_l, poly_d), DomainVanishingPoly(domain_k))
        panic(why) == [tag |-> "Panic", err |-> why]
    IN  IF \E e \in 1..Len(js) : js[e] >= Len(roots_of_unity_w)
        THEN panic("roots_of_unity_w[j] out of bounds")
        ELSE IF Len(js) > Min(Len(g1_l_v_list), Len(g1_l_v_mul_v_list))
        THEN panic("g1_l_v_list[witness_element_index] out of bounds")
        ELSE IF Len(roots_of_unity_w) < 2
        THEN panic("roots_of_unity_w[1] out of bounds")
        ELSE IF num_queries >= witness_size
        THEN panic("poly_coeff_list_x_pow_k_sub_one[num_queries] out of bounds")
        ELSE [tag |-> "Ok", err |-> "",
              g1_l |-> Msm(g1_l_v_list, poly_eval_list_l),
              g1_l_mul_v |-> Msm(g1_l_v_mul_v_list, poly_eval_list_l),
              g1_d |-> CommitG1(g1_srs, poly_d),
              poly_d |-> poly_d,
              poly_l |-> poly_l,
              poly_q_l |-> poly_q_l,
              g1_q_l |-> CommitG1(g1_srs, poly_q_l),
              g1_q_d |-> CommitG1(g1_srs, poly_q_d)]

\* An inverse that yields zero for zero
InverseOrZero(a) == [tag |-> "Some", value |-> IF FIsZero(a) THEN 0 ELSE FInv(a)]

\* Field::inverse(): None for zero
Inverse(a) == IF FIsZero(a) THEN None ELSE [tag |-> "Some", value |-> FInv(a)]

\* The denominators of A, one per touched table position, and of B, one per
\* witness position.
DenominatorsOfA(pp, values, touched, beta, delta) ==
    Vec([e \in 1..Len(touched) |->
            FAdd(FAdd(beta, values[touched[e].elem_index + 1]),
                 FMul(delta, RootsOfUnity(pp.domain_w)[touched[e].elem_index + 1]))])
DenominatorsOfB(pp, witness, beta, delta) ==
    Vec([i \in 1..pp.witness_element_size |->
            FAdd(FAdd(beta, witness.poly_eval_list_f[i]),
                 FMul(delta, RootsOfUnity(pp.domain_v)[i]))])

\* What multi_unity_prove leaves in the transcript it is handed with g1_d:
\* the commitments of D, U_bar and H_2, the challenge alpha, the commitment
\* of H_1 and the challenge beta.
MultiUnityTranscript(g1_d, mu_proof, alpha, mu_beta) ==
    << [label |-> "u", value |-> g1_d],
       [label |-> "u_bar", value |-> mu_proof.u_bar_com1],
       [label |-> "h2", value |-> mu_proof.h_2_com1],
       [label |-> "alpha", value |-> alpha],
       [label |-> "h1", value |-> mu_proof.h_1_com1],
       [label |-> "beta", value |-> mu_beta] >>

\* The state of prove's transcript when get_and_append_challenge(b"beta")
\* is called: Transcript::new(), then what multi_unity_prove appended.  prove
\* itself appends nothing before round 9.
TranscriptAtRound9(g1_d, mu_proof, alpha, mu_beta) ==
    <<>> \o MultiUnityTranscript(g1_d, mu_proof, alpha, mu_beta)

ProveReturn(tag, err, arg, work, drawn, proof) ==
    [tag |-> tag, err |-> err, arg |-> arg, work |-> work, drawn |-> drawn, proof |-> proof]

\* prove(pp, table, tpp, witness, rng).  rands are the blinding scalars the rng
\* yields; alpha and mu_beta are the transcript's challenges inside
\* multi_unity_prove, beta and delta those of round 9.  work lists the
\* commitments computed before prove returned, drawn the challenges the
\* transcript had produced by then.
ProveResult(pp, values, g1_q1_list, witness, rands, alpha, mu_beta, beta, delta) ==
    LET sm == SegmentMultiplicities(witness.segment_indices, pp.num_table_segments)
        mq == MultiplicityPolynomialsAndQuotientG1(
                  sm.map, pp.g1_l_w_list, pp.g1_l_w_div_w_list,
                  pp.g1_q3_list, pp.g1_q4_list, pp.segment_size)
        ipq == IndexPolynomialsAndQuotientsG1(
                   pp.domain_w, pp.domain_k, pp.domain_v, pp.g1_l_v_list,
                   pp.g1_l_v_mul_v_list, pp.g1_srs, witness.segment_indices,
                   pp.witness_element_size, pp.segment_size, pp.num_witness_segments)
        mu == MultiUnityProve(pp, ipq.poly_d, rands, alpha, mu_beta)
        touched == TouchedElements(sm.map, pp.segment_size)
        den_a == DenominatorsOfA(pp, values, touched, beta, delta)
        inv_a == Vec([e \in 1..Len(touched) |-> Inverse(den_a[e])])
        fr_a == Vec([e \in 1..Len(touched) |->
                    FMul(inv_a[e].value, FromU64(touched[e].multiplicity))])
        at(list, e) == list[touched[e].elem_index + 1]
        g1_a == SumSeq(Vec([e \in 1..Len(touched) |-> FMul(at(pp.g1_l_w_list, e), fr_a[e])]))
        g1_q_a == SumSeq(Vec([e \in 1..Len(touched) |->
                      FAdd(FMul(at(g1_q1_list, e), fr_a[e]),
                           FMul(at(pp.g1_q2_list, e), FMul(delta, fr_a[e])))]))
        den_b == DenominatorsOfB(pp, witness, beta, delta)
        inv_b == Vec([i \in 1..Len(den_b) |-> Inverse(den_b[i])])
        poly_b == Interpolate(pp.domain_v, Vec([i \in 1..Len(inv_b) |-> inv_b[i].value]))
        work1 == <<"g1_m", "g1_m_div_w", "g1_q_m">>
        work2 == work1 \o <<"g1_l", "g1_l_mul_v", "g1_d", "g1_q_l", "g1_q_d">>
        work3 == work2 \o <<"multi_unity_proof">>
        work4 == work3 \o <<"g1_a", "g1_q_a">>
        work5 == work4 \o <<"g1_b", "g1_b_0">>
        in_mu == [rands |-> rands, alpha |-> alpha, mu_beta |-> mu_beta]
        round9 == [rands |-> rands, alpha |-> alpha, mu_beta |-> mu_beta,
                   beta |-> beta, delta |-> delta]
    IN  IF sm.tag = "Err" THEN ProveReturn("Err", sm.err, sm.arg, <<>>, None, None)
        ELSE IF mq.tag = "Panic" THEN ProveReturn("Panic", mq.err, 0, <<>>, None, None)
        ELSE IF ipq.tag = "Panic" THEN ProveReturn("Panic", ipq.err, 0, work1, None, None)
        ELSE IF mu.tag # "Ok" THEN ProveReturn(mu.tag, mu.err, 0, work2, in_mu, None)
        ELSE IF \E e \in 1..Len(touched) :
                    touched[e].elem_index >= Min(Len(values), Len(g1_q1_list))
        THEN ProveReturn("Panic", "table.values[elem_index] out of bounds", 0, work3,
                         round9, None)
        ELSE IF \E e \in 1..Len(inv_a) : inv_a[e] = None
        THEN ProveReturn("Err", "FailedToInverseFieldElement", 0, work3, round9, None)
        ELSE IF Len(witness.poly_eval_list_f) < pp.witness_element_size
        THEN ProveReturn("Panic", "witness.poly_eval_list_f[i] out of bounds", 0, work4,
                         round9, None)
        ELSE IF \E i \in 1..Len(inv_b) : inv_b[i] = None
        THEN ProveReturn("Err", "FailedToInverseFieldElement", 0, work4, round9, None)
        ELSE IF Len(poly_b) = 0
        THEN ProveReturn("Panic", "poly_b.coeffs[1..] out of bounds", 0, work4, round9, None)
        ELSE ProveReturn("Ok", "", 0, work5, round9,
                 [g1_m |-> mq.g1_m, g1_m_div_w |-> mq.g1_m_div_w, g1_q_m |-> mq.g1_q_m,
                  g1_l |-> ipq.g1_l, g1_l_mul_v |-> ipq.g1_l_mul_v, g1_q_l |-> ipq.g1_q_l,
                  g1_d |-> ipq.g1_d, g1_q_d |-> ipq.g1_q_d,
                  g1_a |-> g1_a, g1_q_a |-> g1_q_a,
                  g1_b |-> CommitG1(pp.g1_srs, poly_b), g1_q_b |-> 0,
                  multi_unity_proof |-> mu.proof])

\* ------------------------------------------------------------------ actions
Init ==
    /\ pc = "start"
    /\ setupRes = None
    /\ table = None
    /\ witRes = None
    /\ dIn = None
    /\ muRes = None
    /\ muVer = None
    /\ proveRes = None

\* PublicParameters::setup(rng, n, k, s)
Setup ==
    /\ pc = "start"
    /\ \E n \in 1..MaxSegments, k \in WitnessSegmentChoices,
          s \in SegmentSizeChoices, tau \in TauChoices :
          setupRes' = SetupResult(n, k, s, tau)
    /\ pc' = "setup"
    /\ UNCHANGED <<table, witRes, dIn, muRes, muVer, proveRes>>

\* D interpolated over K from the roots of unity of k queried segments:
\* D(v^(q*s)) = w^(seg_q * s).
SegmentEvaluations(pp, segs) ==
    Vec([q \in 1..Len(segs) |-> RootsOfUnity(pp.domain_w)[segs[q] * pp.segment_size + 1]])
DFromEvaluations(pp, evals, segs) ==
    [tag |-> "D", evals |-> evals, segs |-> segs,
     d_poly |-> Interpolate(pp.domain_k, evals)]

ChooseSegments ==
    /\ pc = "setup" /\ setupRes.tag = "Ok"
    /\ \E segs \in [1..setupRes.pp.num_witness_segments ->
                      0..(setupRes.pp.num_table_segments - 1)] :
          dIn' = DFromEvaluations(setupRes.pp, SegmentEvaluations(setupRes.pp, segs), segs)
    /\ pc' = "d"
    /\ UNCHANGED <<setupRes, table, witRes, muRes, muVer, proveRes>>

\* D interpolated from arbitrary evaluations over K.
ChooseEvaluations ==
    /\ pc = "setup" /\ setupRes.tag = "Ok"
    /\ \E evals \in [1..setupRes.pp.num_witness_segments -> 0..MaxEval] :
          dIn' = DFromEvaluations(setupRes.pp, evals, <<>>)
    /\ pc' = "d"
    /\ UNCHANGED <<setupRes, table, witRes, muRes, muVer, proveRes>>

\* multi_unity_prove(pp, d_poly, rng, alpha, beta)
CallMultiUnityProve ==
    /\ pc = "d"
    /\ \E rands \in [1..(setupRes.pp.log_num_segments - 1) -> 0..MaxBlind],
          alpha \in 0..MaxChallenge, beta \in 0..MaxChallenge :
          muRes' = [res |-> MultiUnityProve(setupRes.pp, dIn.d_poly, rands, alpha, beta),
                    rands |-> rands, alpha |-> alpha, beta |-> beta]
    /\ pc' = "mu_proved"
    /\ UNCHANGED <<setupRes, table, witRes, dIn, muVer, proveRes>>

\* multi_unity_verify(pp, u_com1, proof, rng, alpha, beta) on the proof that
\* multi_unity_prove returned, with the alpha and beta it was produced for;
\* u_com1 commits to the polynomial with the evaluations u_evals over K.
VerifyAgainst(u_evals, zeta) ==
    LET pp == setupRes.pp
        u_com1 == CommitG1(pp.g1_srs, Interpolate(pp.domain_k, u_evals))
    IN  [u_evals |-> u_evals, u_com1 |-> u_com1, zeta |-> zeta,
         res |-> MultiUnityVerify(pp, u_com1, muRes.res.proof, zeta, muRes.alpha, muRes.beta)]

\* ... with the commitment of D itself
VerifySameD ==
    /\ pc = "mu_proved" /\ muRes.res.tag = "Ok"
    /\ \E zeta \in 1..MaxZeta : muVer' = VerifyAgainst(dIn.evals, zeta)
    /\ pc' = "mu_verified"
    /\ UNCHANGED <<setupRes, table, witRes, dIn, muRes, proveRes>>

\* ... with the commitment of a D' whose evaluations over K differ from D's
VerifyOtherD ==
    /\ pc = "mu_proved" /\ muRes.res.tag = "Ok"
    /\ \E zeta \in 1..MaxZeta, evals \in [1..Len(dIn.evals) -> 0..MaxEval] :
          /\ evals # dIn.evals
          /\ muVer' = VerifyAgainst(evals, zeta)
    /\ pc' = "mu_verified"
    /\ UNCHANGED <<setupRes, table, witRes, dIn, muRes, proveRes>>

\* A MultiUnityProof made up without multi_unity_prove: every group element
\* is g, every scalar is v, except the last two opening proofs.
ForgedProof(g, v, pi_4, pi_5) ==
    [u_bar_com1 |-> g, h_1_com1 |-> g, h_2_com1 |-> g,
     u_bar_alpha_com1 |-> g, h_2_alpha_com1 |-> g,
     v1 |-> v, v2 |-> v, v3 |-> v,
     pi_1 |-> g, pi_2 |-> g, pi_3 |-> g, pi_4 |-> pi_4, pi_5 |-> pi_5]

\* multi_unity_verify(pp, u_com1, proof, rng, alpha, beta) on a made-up proof
\* and commitment, for any parameters setup returned.
VerifyForged ==
    /\ pc = "setup" /\ setupRes.tag = "Ok"
    /\ \E g \in 0..MaxForged, v \in 0..MaxForged, pi_4 \in 0..MaxForged,
          pi_5 \in 0..MaxForged, u_com1 \in 0..MaxForged,
          alpha \in 0..MaxChallenge, beta \in 0..MaxChallenge, zeta \in 1..MaxZeta :
          LET proof == ForgedProof(g, v, pi_4, pi_5)
          IN  muVer' = [proof |-> proof, u_com1 |-> u_com1, zeta |-> zeta,
                        alpha |-> alpha, beta |-> beta,
                        res |-> MultiUnityVerify(setupRes.pp, u_com1, proof, zeta, alpha, beta)]
    /\ pc' = "forged_verified"
    /\ UNCHANGED <<setupRes, table, witRes, dIn, muRes, proveRes>>

NextMU ==
    \/ Setup
    \/ ChooseSegments
    \/ ChooseEvaluations
    \/ CallMultiUnityProve
    \/ VerifySameD
    \/ VerifyOtherD
    \/ VerifyForged

SpecMU == Init /\ [][NextMU]_vars

\* setup for a table of eight segments of one element: log2(n) = 3, so the
\* squaring loop of multi_unity_prove runs twice.
SetupLargeTable ==
    /\ pc = "start"
    /\ \E n \in LargeTableChoices, k \in WitnessSegmentChoices, tau \in TauChoices :
          setupRes' = SetupResult(n, k, 1, tau)
    /\ pc' = "setup"
    /\ UNCHANGED <<table, witRes, dIn, muRes, muVer, proveRes>>

\* multi_unity_prove alone, over the small tables and the large one.
NextMUProve ==
    \/ Setup
    \/ SetupLargeTable
    \/ ChooseSegments
    \/ ChooseEvaluations
    \/ CallMultiUnityProve

SpecMUProve == Init /\ [][NextMUProve]_vars

\* Table::new(pp, segments)
TableNew ==
    /\ pc = "setup" /\ setupRes.tag = "Ok"
    /\ \E base \in TableBaseChoices :
          table' = [values |-> TableValues(setupRes.pp.table_element_size, base, 1),
                    tpp |-> None]
    /\ pc' = "table"
    /\ UNCHANGED <<setupRes, witRes, dIn, muRes, muVer, proveRes>>

\* table.preprocess(pp)
TablePreprocess ==
    /\ pc = "table"
    /\ table' = [table EXCEPT !.tpp = [g1_q1_list |-> G1Q1List(setupRes.pp, table.values)]]
    /\ pc' = "preprocessed"
    /\ UNCHANGED <<setupRes, witRes, dIn, muRes, muVer, proveRes>>

\* Witness::new(pp, table, queried_segment_indices), with the table of pp or
\* a table built for more segments.
CallWitnessNew ==
    /\ pc = "preprocessed"
    /\ \E len \in {setupRes.pp.num_witness_segments - 1, setupRes.pp.num_witness_segments,
                    setupRes.pp.num_witness_segments + 1},
          extra_segments \in {0, MaxExtraSegments} :
          \E indices \in [1..len -> 0..(setupRes.pp.num_table_segments + MaxExtraSegments - 1)] :
             LET values == LargerTable(table.values, setupRes.pp.segment_size, extra_segments)
             IN  witRes' = [res |-> WitnessNew(setupRes.pp, values, indices),
                            indices |-> indices, table_len |-> Len(values)]
    /\ pc' = "witness"
    /\ UNCHANGED <<setupRes, table, dIn, muRes, muVer, proveRes>>

\* Witness::new_with_padding(pp, table, queried_segment_indices) with any
\* number of indices from none to k + 1.
CallWitnessNewWithPadding ==
    /\ pc = "preprocessed"
    /\ \E len \in 0..(setupRes.pp.num_witness_segments + 1) :
          \E indices \in [1..len -> 0..(setupRes.pp.num_table_segments + MaxExtraSegments - 1)] :
             witRes' = [res |-> WitnessNewWithPadding(setupRes.pp, table.values, indices),
                        indices |-> indices, table_len |-> Len(table.values)]
    /\ pc' = "padded"
    /\ UNCHANGED <<setupRes, table, dIn, muRes, muVer, proveRes>>

\* A prove that takes the preprocessed table by value and drops it.
CallProveConsumingTable ==
    /\ pc = "witness" /\ witRes.res.tag = "Ok"
    /\ \E rands \in [1..(setupRes.pp.log_num_segments - 1) -> 0..MaxBlind],
          alpha \in 0..MaxChallenge, mu_beta \in 0..MaxChallenge,
          beta \in 0..MaxChallenge, delta \in 0..MaxChallenge :
          proveRes' = ProveResult(setupRes.pp, table.values, table.tpp.g1_q1_list,
                                  witRes.res.witness, rands, alpha, mu_beta, beta, delta)
    /\ table' = [table EXCEPT !.tpp = None]
    /\ pc' = "proved"
    /\ UNCHANGED <<setupRes, witRes, dIn, muRes, muVer>>

\* prove(pp, table, tpp, witness, rng)
CallProve ==
    /\ pc = "witness" /\ witRes.res.tag = "Ok"
    /\ \E rands \in [1..(setupRes.pp.log_num_segments - 1) -> 0..MaxBlind],
          alpha \in 0..MaxChallenge, mu_beta \in 0..MaxChallenge,
          beta \in 0..MaxChallenge, delta \in 0..MaxChallenge :
          proveRes' = ProveResult(setupRes.pp, table.values, table.tpp.g1_q1_list,
                                  witRes.res.witness, rands, alpha, mu_beta, beta, delta)
    /\ pc' = "proved"
    /\ UNCHANGED <<setupRes, table, witRes, dIn, muRes, muVer>>

Next ==
    \/ Setup
    \/ TableNew
    \/ TablePreprocess
    \/ CallWitnessNew
    \/ CallProve

Spec == Init /\ [][Next]_vars

\* Witnesses built by new_with_padding.
NextPadding ==
    \/ Setup
    \/ TableNew
    \/ TablePreprocess
    \/ CallWitnessNewWithPadding

SpecPadding == Init /\ [][NextPadding]_vars

\* Every operation, of the lookup argument and of the Multi-Unity protocol.
NextAll ==
    \/ Next
    \/ NextMU

SpecAll == Init /\ [][NextAll]_vars

\* ------------------------------------------------- Multi-Unity properties
\* multi_unity_prove has returned (or panicked) in this state.
MuProved == pc \in {"mu_proved", "mu_verified"}
\* Every evaluation of D over K is an n-th root of unity.
AllNthRoots(pp, evals) ==
    \A q \in 1..Len(evals) : FPow(evals[q], pp.num_table_segments) = 1
\* The i-th deferred KZG check, on its own: e(a, b) * e(c, d) = 1.
DeferredCheckHolds(pairs, i) ==
    FAdd(FMul(pairs[2 * i - 1][1], pairs[2 * i - 1][2]),
         FMul(pairs[2 * i][1], pairs[2 * i][2])) = 0
\* The proof in muRes is valid for D: each of the five checks holds against
\* the commitment of D.
ValidProofForD ==
    /\ muRes.res.tag = "Ok"
    /\ LET deferred == MultiUnityVerifyDeferPairing(
                           setupRes.pp, CommitG1(setupRes.pp.g1_srs, dIn.d_poly),
                           muRes.res.proof, muRes.alpha, muRes.beta)
       IN  /\ deferred.tag = "Ok"
           /\ \A i \in 1..5 : DeferredCheckHolds(deferred.pairs, i)

\* C2: for a power-of-two n, a D with an evaluation over K that is not an
\* n-th root of unity makes multi_unity_prove return
\* Err(RemainderAfterDivisionIsNonZero), whatever the blinding, alpha, beta.
C2_UnityCheckRejection ==
    (/\ MuProved
     /\ IsPowerOfTwo(setupRes.pp.num_table_segments)
     /\ ~AllNthRoots(setupRes.pp, dIn.evals))
    => (muRes.res.tag = "Err" /\ muRes.res.err = "RemainderAfterDivisionIsNonZero")

\* C3: for a power-of-two n and a D whose evaluations over K are w^(seg*s)
\* with seg < n, multi_unity_prove returns a proof and multi_unity_verify
\* with the commitment of D and the same alpha, beta returns true.
C3_MultiUnityCompleteness ==
    (/\ MuProved
     /\ IsPowerOfTwo(setupRes.pp.num_table_segments)
     /\ dIn.segs # <<>>)
    => /\ muRes.res.tag = "Ok"
       /\ (pc = "mu_verified" /\ muVer.u_evals = dIn.evals) => muVer.res = "true"

\* C4 (as stated): multi_unity_verify returns false for a valid proof for D
\* and the commitment of a D' whose evaluations over K differ from D's.
C4_BindingToD ==
    (pc = "mu_verified" /\ ValidProofForD /\ muVer.u_evals # dIn.evals)
    => muVer.res = "false"

\* C4 (amended): multi_unity_verify returns false for a valid proof for D and
\* a commitment that differs from the commitment of D.
C4_BindingToCommitment ==
    (/\ pc = "mu_verified"
     /\ ValidProofForD
     /\ muVer.u_com1 # CommitG1(setupRes.pp.g1_srs, dIn.d_poly))
    => muVer.res = "false"

\* A valid proof was verified against another commitment and rejected.
C4_Witness ==
    /\ pc = "mu_verified"
    /\ ValidProofForD
    /\ muVer.u_evals # dIn.evals
    /\ muVer.u_com1 # CommitG1(setupRes.pp.g1_srs, dIn.d_poly)
    /\ muVer.res = "false"

\* ------------------------------------------------------ Witness properties
\* Witness::new has returned in this state.
WitnessBuilt == pc \in {"witness", "proved"}
\* The table handed to Witness::new was the table of pp: n * s values.
TableOfPp == witRes.table_len = setupRes.pp.table_element_size
\* Some supplied segment index is >= n.
SomeIndexOutOfRange ==
    \E e \in 1..Len(witRes.indices) : witRes.indices[e] >= setupRes.pp.num_table_segments
ExactlyKIndices == Len(witRes.indices) = setupRes.pp.num_witness_segments

\* C7: whenever the number of supplied indices differs from k, Witness::new
\* returns Err(InvalidNumberOfQueries), having read no table value.
C7_CountCheckedFirst ==
    (WitnessBuilt /\ ~ExactlyKIndices)
    => /\ witRes.res.tag = "Err"
       /\ witRes.res.err = "InvalidNumberOfQueries"
       /\ witRes.res.arg = Len(witRes.indices)
       /\ witRes.res.table_reads = 0

\* More indices than k, all of them in range, were turned down.
C7_Witness ==
    /\ WitnessBuilt
    /\ Len(witRes.indices) = setupRes.pp.num_witness_segments + 1
    /\ ~SomeIndexOutOfRange
    /\ witRes.res.err = "InvalidNumberOfQueries"

\* C8 (as stated): for the table of pp, Witness::new returns
\* Err(InvalidSegmentElementIndex) whenever some supplied index is >= n,
\* returns a Witness for exactly k indices all < n, and returns no Witness
\* when it fails.
C8_IndexCheck ==
    (WitnessBuilt /\ TableOfPp)
    => /\ SomeIndexOutOfRange
            => (witRes.res.tag = "Err" /\ witRes.res.err = "InvalidSegmentElementIndex")
       /\ (ExactlyKIndices /\ ~SomeIndexOutOfRange) => witRes.res.tag = "Ok"
       /\ witRes.res.tag # "Ok" => witRes.res.witness = None

\* C8 (amended): for the table of pp and exactly k supplied indices,
\* Witness::new returns Err(InvalidSegmentElementIndex) whenever some index is
\* >= n and returns a Witness of the queried segments when all are < n; it
\* returns no Witness when it fails.
C8_IndexCheckOfKIndices ==
    (WitnessBuilt /\ TableOfPp)
    => /\ (ExactlyKIndices /\ SomeIndexOutOfRange)
            => (witRes.res.tag = "Err" /\ witRes.res.err = "InvalidSegmentElementIndex")
       /\ (ExactlyKIndices /\ ~SomeIndexOutOfRange)
            => /\ witRes.res.tag = "Ok"
               /\ witRes.res.witness.segment_indices = witRes.indices
               /\ Len(witRes.res.witness.poly_eval_list_f) = setupRes.pp.witness_element_size
       /\ witRes.res.tag # "Ok" => witRes.res.witness = None

\* k indices for the table of pp, the last one equal to n, were turned down.
C8_Witness ==
    /\ WitnessBuilt /\ TableOfPp /\ ExactlyKIndices
    /\ witRes.indices[Len(witRes.indices)] = setupRes.pp.num_table_segments
    /\ \A e \in 1..(Len(witRes.indices) - 1) :
           witRes.indices[e] < setupRes.pp.num_table_segments
    /\ witRes.res.err = "InvalidSegmentElementIndex"
    /\ witRes.res.witness = None

\* -------------------------------------------------------- setup properties
\* C9: setup returns an error for every n that is not a power of two, and an
\* error is returned before the SRS is computed.
C9_SetupRejectsNonPowerOfTwo ==
    /\ (pc # "start" /\ setupRes.tag = "Ok") => IsPowerOfTwo(setupRes.pp.num_table_segments)
    /\ (pc # "start" /\ setupRes.tag = "Err")
          => \A i \in 1..Len(setupRes.work) : setupRes.work[i] # "srs"

\* -------------------------------------------------------- prove properties
Proved == pc = "proved"
\* The witness handed to prove holds a segment index >= n.
WitnessIndexOutOfRange ==
    \E e \in 1..Len(witRes.res.witness.segment_indices) :
        witRes.res.witness.segment_indices[e] >= setupRes.pp.num_table_segments
\* The first such index.
FirstIndexOutOfRange ==
    LET indices == witRes.res.witness.segment_indices
    IN  indices[FirstTrue(Vec([e \in 1..Len(indices) |->
                       indices[e] >= setupRes.pp.num_table_segments]))]

\* C1: n, k, s powers of two, k <= n, a witness of k segments of the table:
\* prove returns a proof (which verify is then to accept).
C1_Completeness ==
    (/\ Proved
     /\ IsPowerOfTwo(setupRes.pp.num_table_segments)
     /\ IsPowerOfTwo(setupRes.pp.num_witness_segments)
     /\ IsPowerOfTwo(setupRes.pp.segment_size)
     /\ setupRes.pp.num_witness_segments <= setupRes.pp.num_table_segments
     /\ TableOfPp
     /\ ~WitnessIndexOutOfRange)
    => (proveRes.tag = "Ok" /\ proveRes.proof # None)

\* C6: when the witness holds a segment index i >= n, prove returns
\* Err(InvalidSegmentIndex(i)) and has computed no commitment.
C6_OutOfRangeIndexRejected ==
    (Proved /\ WitnessIndexOutOfRange)
    => /\ proveRes.tag = "Err"
       /\ proveRes.err = "InvalidSegmentIndex"
       /\ proveRes.arg = FirstIndexOutOfRange
       /\ proveRes.work = <<>>

\* prove reached round 9: the transcript produced beta and delta.
Round9Reached == Proved /\ proveRes.drawn # None /\ "beta" \in DOMAIN proveRes.drawn
\* beta + t_i + delta * w^i is zero for some touched table position i.
ZeroDenominatorOfA ==
    LET pp == setupRes.pp
        sm == SegmentMultiplicities(witRes.res.witness.segment_indices, pp.num_table_segments)
        den == DenominatorsOfA(pp, table.values, TouchedElements(sm.map, pp.segment_size),
                               proveRes.drawn.beta, proveRes.drawn.delta)
    IN  \E e \in 1..Len(den) : den[e] = 0
\* beta + f_j + delta * v^j is zero for some witness position j.
ZeroDenominatorOfB ==
    LET den == DenominatorsOfB(setupRes.pp, witRes.res.witness,
                               proveRes.drawn.beta, proveRes.drawn.delta)
    IN  \E j \in 1..Len(den) : den[j] = 0

\* C10: once beta and delta are drawn, a zero denominator of A or of B makes
\* prove return Err(FailedToInverseFieldElement) and no Proof.
C10_ZeroDenominatorAborts ==
    (Round9Reached /\ (ZeroDenominatorOfA \/ ZeroDenominatorOfB))
    => /\ proveRes.tag = "Err"
       /\ proveRes.err = "FailedToInverseFieldElement"
       /\ proveRes.proof = None

\* Every denominator of A was invertible, one of B was zero, and prove
\* returned the error.
C10_Witness ==
    /\ Round9Reached
    /\ ~ZeroDenominatorOfA
    /\ ZeroDenominatorOfB
    /\ proveRes.tag = "Err"
    /\ proveRes.err = "FailedToInverseFieldElement"

\* The multiplicity map prove computed from the witness, and the three
\* commitments of round 1 computed over the touched positions only.
ProvedMultiplicities ==
    SegmentMultiplicities(witRes.res.witness.segment_indices, setupRes.pp.num_table_segments)
ProvedMultiplicityCommitments ==
    MultiplicityPolynomialsAndQuotientG1(
        ProvedMultiplicities.map, setupRes.pp.g1_l_w_list, setupRes.pp.g1_l_w_div_w_list,
        setupRes.pp.g1_q3_list, setupRes.pp.g1_q4_list, setupRes.pp.segment_size)
\* prove ran on a witness whose segment indices are all < n.
ProvedInRange == Proved /\ ~WitnessIndexOutOfRange

\* C11: for every multiplicity map over 0..n-1, the sparse [M(tau)]_1,
\* [M(tau / w)]_1 and [Q_M(tau)]_1 equal the commitments of the densely
\* computed M, M(X / w) and (M(X) - M(X / w)) * (X^n - 1) / Z_W(X).
C11_SparseEqualsDense ==
    ProvedInRange
    => LET sparse == ProvedMultiplicityCommitments
           dense == DenseMultiplicityPolynomialsAndQuotientG1(
                        setupRes.pp, ProvedMultiplicities.map)
       IN  /\ sparse.tag = "Ok"
           /\ sparse.g1_m = dense.g1_m
           /\ sparse.g1_m_div_w = dense.g1_m_div_w
           /\ sparse.g1_q_m = dense.g1_q_m

\* ------------------------------------------------- multiplicity map
\* The queried indices prove hands to segment_multiplicities.
ProvedIndices == witRes.res.witness.segment_indices

\* C12: for every list segment_multiplicities accepts, the keys of the map
\* are exactly the distinct queried indices, every key lies in 0..n-1, each
\* value is the number of occurrences of its key, and the values sum to the
\* length of the list.
C12_MultiplicityMap ==
    (Proved /\ ProvedMultiplicities.tag = "Ok")
    => LET map == ProvedMultiplicities.map
           n == setupRes.pp.num_table_segments
       IN  /\ {map[q].segment_index : q \in 1..Len(map)}
                 = {ProvedIndices[e] : e \in 1..Len(ProvedIndices)}
           /\ \A q \in 1..Len(map) : map[q].segment_index \in 0..(n - 1)
           /\ \A q \in 1..Len(map) :
                 map[q].multiplicity
                   = Cardinality({e \in 1..Len(ProvedIndices) :
                                     ProvedIndices[e] = map[q].segment_index})
           /\ SumSeq(Vec([q \in 1..Len(map) |-> map[q].multiplicity]))
                 = Len(ProvedIndices)

\* ------------------------------------------------- log-derivative sums
\* prove returned a proof for a witness whose segments are all segments of
\* the table of pp: no denominator of A or B was zero.
HonestProof ==
    /\ Proved /\ TableOfPp /\ ~WitnessIndexOutOfRange
    /\ proveRes.tag = "Ok"
\* The sum of the values fr_a_i = multiplicity_i / (beta + t_i + delta * w^i)
\* over the touched table positions.
SumOfA ==
    LET pp == setupRes.pp
        touched == TouchedElements(ProvedMultiplicities.map, pp.segment_size)
        den == DenominatorsOfA(pp, table.values, touched,
                               proveRes.drawn.beta, proveRes.drawn.delta)
    IN  SumSeq(Vec([e \in 1..Len(touched) |->
            FMul(Inverse(den[e]).value, FromU64(touched[e].multiplicity))]))
\* The sum of poly_eval_list_b: 1 / (beta + f_j + delta * v^j) over the k*s
\* witness positions.
SumOfB ==
    LET den == DenominatorsOfB(setupRes.pp, witRes.res.witness,
                               proveRes.drawn.beta, proveRes.drawn.delta)
    IN  SumSeq(Vec([j \in 1..Len(den) |-> Inverse(den[j]).value]))

\* C13: for an honest witness and beta, delta with every denominator
\* nonzero, the sum of the a_i over the touched table positions equals the
\* sum of the b_j over the k*s witness positions.
C13_LogDerivativeEquality == HonestProof => SumOfA = SumOfB

\* ------------------------------------------------------- batching weights
\* multi_unity_verify ran on a made-up proof and returned a boolean.
ForgedVerified == pc = "forged_verified" /\ muVer.res # "panic"
\* The ten pairing inputs multi_unity_verify got from the deferred checks.
ForgedPairs ==
    MultiUnityVerifyDeferPairing(setupRes.pp, muVer.u_com1, muVer.proof,
                                 muVer.alpha, muVer.beta).pairs
\* The value of check i (from 0) on its own: zero iff its pairing equation holds.
CheckValue(i) ==
    FAdd(FMul(ForgedPairs[2 * i + 1][1], ForgedPairs[2 * i + 1][2]),
         FMul(ForgedPairs[2 * i + 2][1], ForgedPairs[2 * i + 2][2]))
\* The answer of a batch that multiplies check i by zeta^exponents[i + 1].
BatchAccepts(exponents) ==
    SumSeq(Vec([i \in 1..5 |->
        FMul(FPow(muVer.zeta, exponents[i]), CheckValue(i - 1))])) = 0

\* C15 (as stated): check i (i = 0..4) is weighted by zeta^i: the answer of
\* multi_unity_verify is that of the batch with weights 1, zeta, zeta^2,
\* zeta^3, zeta^4.
C15_SequentialPowers ==
    ForgedVerified => (muVer.res = "true" <=> BatchAccepts(<<0, 1, 2, 3, 4>>))

\* C15 (amended): zeta is squared between two checks: the answer is that of
\* the batch with weights 1, zeta, zeta^2, zeta^4, zeta^8.
C15_RepeatedSquares ==
    ForgedVerified => (muVer.res = "true" <=> BatchAccepts(<<0, 1, 2, 4, 8>>))

\* A made-up proof is accepted although the batch with sequential powers
\* would reject it, the last two checks both failing on their own.
C15_Witness ==
    /\ ForgedVerified
    /\ muVer.zeta # 1
    /\ CheckValue(3) # 0 /\ CheckValue(4) # 0
    /\ muVer.res = "true"
    /\ ~BatchAccepts(<<0, 1, 2, 3, 4>>)

\* ------------------------------------------------- Fiat-Shamir ordering
\* The commitments of rounds 1 that prove computed from the witness.
ProvedIndexCommitments ==
    LET pp == setupRes.pp
    IN  IndexPolynomialsAndQuotientsG1(
            pp.domain_w, pp.domain_k, pp.domain_v, pp.g1_l_v_list,
            pp.g1_l_v_mul_v_list, pp.g1_srs, ProvedIndices,
            pp.witness_element_size, pp.segment_size, pp.num_witness_segments)
\* The proof multi_unity_prove returned inside prove.
ProvedMultiUnity ==
    MultiUnityProve(setupRes.pp, ProvedIndexCommitments.poly_d, proveRes.drawn.rands,
                    proveRes.drawn.alpha, proveRes.drawn.mu_beta)
\* The transcript from which beta and delta were drawn.
ProvedTranscript ==
    TranscriptAtRound9(ProvedIndexCommitments.g1_d, ProvedMultiUnity.proof,
                       proveRes.drawn.alpha, proveRes.drawn.mu_beta)
\* The prover messages sent before round 9.
MessagesBeforeRound9 ==
    LET mq == ProvedMultiplicityCommitments
        ipq == ProvedIndexCommitments
        mu == ProvedMultiUnity.proof
    IN  {mq.g1_m, mq.g1_m_div_w, mq.g1_q_m,
         ipq.g1_l, ipq.g1_l_mul_v, ipq.g1_q_l, ipq.g1_d, ipq.g1_q_d,
         mu.u_bar_com1, mu.h_1_com1, mu.h_2_com1}

\* C16: when beta and delta are drawn, every earlier prover message ([M],
\* [M(tau/w)], [Q_M], [L], [L(tau*v)], [Q_L], [D], [Q_D] and the Multi-Unity
\* commitments) has been appended to the transcript.
C16_ChallengesAfterAllMessages ==
    Round9Reached
    => \A msg \in MessagesBeforeRound9 :
           \E i \in 1..Len(ProvedTranscript) : ProvedTranscript[i].value = msg

\* ------------------------------------------------- verification outcomes
\* multi_unity_verify has run, on a proof of multi_unity_prove or a made-up one.
Verified == pc \in {"mu_verified", "forged_verified"}

\* C17: for parameters of a successful setup and any proof, commitment,
\* alpha and beta, multi_unity_verify returns true or false: the assertion on
\* the ten pairing inputs and the index lagrange_basis_log_n[log_num_segments - 1]
\* never fail.
C17_VerifyNeverPanics == Verified => muVer.res \in {"true", "false"}

\* ------------------------------------------------------------- frame
\* The step is a call of Witness::new, prove, multi_unity_prove or
\* multi_unity_verify.
CallOnSharedData ==
    pc' \in {"witness", "proved", "mu_proved", "mu_verified", "forged_verified"}

\* C18: Witness::new, prove, multi_unity_prove and multi_unity_verify leave
\* the PublicParameters, the Table and the preprocessed table as they were,
\* whatever they return.
C18_SharedDataUnchanged ==
    [][CallOnSharedData => (setupRes' = setupRes /\ table' = table)]_vars

\* prove failed, and the parameters and the preprocessed table are still
\* what setup and preprocess computed.
C18_Witness ==
    /\ Proved
    /\ proveRes.tag = "Err"
    /\ setupRes = SetupResult(setupRes.pp.num_table_segments, setupRes.pp.num_witness_segments,
                              setupRes.pp.segment_size, setupRes.pp.tau)
    /\ table.tpp # None
    /\ table.tpp.g1_q1_list = G1Q1List(setupRes.pp, table.values)

\* ------------------------------------------------------- setup properties
\* setup returned parameters.
SetupOk == pc # "start" /\ setupRes.tag = "Ok"
\* The elements of a domain.
ElementsOf(d) == {Element(d, i) : i \in 0..(d.size - 1)}

\* C19: after a successful setup(n, k, s), W has n*s elements, V has k*s
\* elements, K has k elements, K = {v^(i*s) : 0 <= i < k} is part of V, the
\* Multi-Unity domain has log2(n) elements, and every size is a power of two.
C19_DomainSizes ==
    SetupOk
    => LET pp == setupRes.pp
           n == pp.num_table_segments
           k == pp.num_witness_segments
           s == pp.segment_size
       IN  /\ pp.domain_w.size = n * s
           /\ pp.domain_v.size = k * s
           /\ pp.domain_k.size = k
           /\ ElementsOf(pp.domain_k) = {Element(pp.domain_v, i * s) : i \in 0..(k - 1)}
           /\ ElementsOf(pp.domain_k) \subseteq ElementsOf(pp.domain_v)
           /\ \E j \in 0..n : 2 ^ j = n /\ pp.domain_log_n.size = j
           /\ \A d \in {pp.domain_w, pp.domain_v, pp.domain_k, pp.domain_log_n} :
                  IsPowerOfTwo(d.size)

\* The polynomial X.
PolyX == <<0, 1>>

\* C20: for every position i of W, the constant Q2_i = w^i / (n*s) that
\* setup commits to in g1_q2_list[i] satisfies
\* Lagrange_i(X) * X = w^i * Lagrange_i(X) + Z_W(X) * Q2_i, Z_W(X) = X^(n*s) - 1.
C20_Q2Identity ==
    SetupOk
    => LET pp == setupRes.pp
           z_w == VanishingPoly(pp.num_table_segments * pp.segment_size)
       IN  \A i \in 0..(pp.domain_w.size - 1) :
               LET lagrange_i == LagrangePoly(pp.domain_w, i)
                   w_i == Element(pp.domain_w, i)
                   q2_i == pp.g1_q2_list[i + 1]
               IN  PMul(lagrange_i, PolyX)
                     = PAdd(PScale(w_i, lagrange_i), PScale(q2_i, z_w))

\* ------------------------------------------- fractional decomposition
\* B interpolated over V from b_j = 1 / (beta + f_j + delta * v^j), and
\* B_0(X) = (B(X) - B(0)) / X.
ProvedPolyB ==
    LET den == DenominatorsOfB(setupRes.pp, witRes.res.witness,
                               proveRes.drawn.beta, proveRes.drawn.delta)
    IN  Interpolate(setupRes.pp.domain_v, Vec([j \in 1..Len(den) |-> Inverse(den[j]).value]))
ProvedPolyB0 == PFromCoeffs(SubSeq(ProvedPolyB, 2, Len(ProvedPolyB)))
\* A interpolated over W from a_i at the touched positions and 0 elsewhere,
\* and its quotient: A(X) * (T(X) + beta + delta * X) - M(X) = Z_W(X) * Q_A(X).
ProvedPolyA ==
    LET pp == setupRes.pp
        touched == TouchedElements(ProvedMultiplicities.map, pp.segment_size)
        den == DenominatorsOfA(pp, table.values, touched,
                               proveRes.drawn.beta, proveRes.drawn.delta)
        a_at(i) == LET hits == {e \in 1..Len(touched) : touched[e].elem_index = i}
                   IN  IF hits = {} THEN 0
                       ELSE LET e == CHOOSE h \in hits : TRUE
                            IN  FMul(Inverse(den[e]).value, FromU64(touched[e].multiplicity))
    IN  Interpolate(pp.domain_w, Vec([i \in 1..pp.domain_w.size |-> a_at(i - 1)]))
ProvedPolyM ==
    LET pp == setupRes.pp
        touched == TouchedElements(ProvedMultiplicities.map, pp.segment_size)
        m_at(i) == LET hits == {e \in 1..Len(touched) : touched[e].elem_index = i}
                   IN  IF hits = {} THEN 0
                       ELSE FromU64(touched[CHOOSE h \in hits : TRUE].multiplicity)
    IN  Interpolate(pp.domain_w, Vec([i \in 1..pp.domain_w.size |-> m_at(i - 1)]))
ProvedQuotientOfA ==
    LET pp == setupRes.pp
        poly_t == Interpolate(pp.domain_w, table.values)
        factor == PAdd(PAdd(poly_t, PConst(proveRes.drawn.beta)),
                       PScale(proveRes.drawn.delta, PolyX))
    IN  DivideWithQAndR(PSub(PMul(ProvedPolyA, factor), ProvedPolyM), DomainVanishingPoly(pp.domain_w))

\* C21: every Proof prove returns for an honest input carries
\* g1_q_a = [Q_A(tau)]_1 and g1_q_b = [B_0(tau)]_1, B_0(X) = (B(X) - B(0)) / X.
C21_QuotientCommitments ==
    HonestProof
    => /\ proveRes.proof.g1_q_a = CommitG1(setupRes.pp.g1_srs, ProvedQuotientOfA[1])
       /\ proveRes.proof.g1_q_b = CommitG1(setupRes.pp.g1_srs, ProvedPolyB0)

\* ------------------------------------------------- index polynomials
\* L: the interpolant over V of w^(seg_q * s + j) at witness position q * s + j.
ProvedPolyL ==
    LET pp == setupRes.pp
        s == pp.segment_size
    IN  Interpolate(pp.domain_v,
            Vec([e \in 1..(Len(ProvedIndices) * s) |->
                    Element(pp.domain_w, ProvedIndices[((e - 1) \div s) + 1] * s + ((e - 1) % s))]))
\* L(X * v), coefficient by coefficient.
ProvedPolyLMulV ==
    PFromCoeffs(Vec([i \in 1..Len(ProvedPolyL) |->
        FMul(ProvedPolyL[i], FPow(setupRes.pp.domain_v.gen, i - 1))]))
\* (X^k - 1) * (L(X * v) - w * L(X))
ProvedLeftOfQL ==
    PMul(VanishingPoly(setupRes.pp.num_witness_segments),
         PSub(ProvedPolyLMulV, PScale(setupRes.pp.domain_w.gen, ProvedPolyL)))
\* prove reached index_polynomials_and_quotients_g1 with indices in 0..n-1.
IndexPolynomialsCalled ==
    /\ ProvedInRange /\ TableOfPp
    /\ ProvedMultiplicities.tag = "Ok"

\* C22: for every list of k valid queried segment indices, the Q_L that
\* index_polynomials_and_quotients_g1 commits to satisfies
\* (X^k - 1) * (L(X * v) - w * L(X)) = Z_V(X) * Q_L(X), with zero remainder.
C22_QLIdentity ==
    (IndexPolynomialsCalled /\ ProvedIndexCommitments.tag = "Ok")
    => /\ ProvedIndexCommitments.poly_l = ProvedPolyL
       /\ ProvedLeftOfQL
            = PMul(DomainVanishingPoly(setupRes.pp.domain_v), ProvedIndexCommitments.poly_q_l)

ChainAssembled ==
    /\ MuProved
    /\ muRes.res.err \notin {"InvalidNumerOfSegments", "log_num_segments - 1 overflows",
                             "u_poly_list[0] out of bounds", "u_poly[coeff_index] out of bounds"}
\* The blinded U_1 .. U_(log2(n)-1) and the chain assembled around them.
ProvedUBlinded ==
    BlindedUPolyList(setupRes.pp, Fft(setupRes.pp.domain_k, dIn.d_poly), muRes.rands)
ProvedChain == AssembledUPolyList(dIn.d_poly, ProvedUBlinded, setupRes.pp.identity_poly_k)

ValidDProved ==
    /\ MuProved
    /\ IsPowerOfTwo(setupRes.pp.num_table_segments)
    /\ AllNthRoots(setupRes.pp, dIn.evals)

\* C25: for every D whose evaluations over K are n-th roots of unity, every
\* blinding randomness and every alpha, beta, every division leaves zero
\* remainder and the three assertions hold, so multi_unity_prove returns Ok.
C25_SelfChecksHold ==
    ValidDProved => muRes.res.tag = "Ok"

\* C26: for every power-of-two n, n = 1 and n = 2 included, and every D,
\* multi_unity_prove returns Ok or Err: no index out of bounds into
\* u_poly_list, h_s_poly_list or lagrange_basis_log_n, no underflow of
\* log_num_segments - 1.
C26_NoPanicOnSmallTables ==
    (MuProved /\ setupRes.pp.num_table_segments \in {1, 2})
    => muRes.res.tag \in {"Ok", "Err"}

\* ------------------------------------------------------------ padding
Padded == pc = "padded"
\* The first min(len, k) supplied indices in their order, then zeros up to k.
PaddedIndices ==
    LET k == setupRes.pp.num_witness_segments
        kept == Min(Len(witRes.indices), k)
    IN  SubSeq(witRes.indices, 1, kept) \o Vec([i \in 1..(k - kept) |-> 0])

\* C27: new_with_padding builds its witness from exactly k segment indices,
\* the first min(len, k) supplied ones in their order followed by zeros; with
\* at most k supplied none is dropped and segment 0 fills the rest; the count
\* check of Witness::new never fails for it.
C27_PaddingToK ==
    Padded
    => LET k == setupRes.pp.num_witness_segments
           s == setupRes.pp.segment_size
       IN  /\ witRes.res.err # "InvalidNumberOfQueries"
           /\ witRes.res.tag = "Ok"
                => /\ Len(witRes.res.witness.segment_indices) = k
                   /\ witRes.res.witness.segment_indices = PaddedIndices
                   /\ Len(witRes.indices) <= k
                        => /\ SubSeq(PaddedIndices, 1, Len(witRes.indices)) = witRes.indices
                           /\ \A i \in (Len(witRes.indices) + 1)..k : PaddedIndices[i] = 0
                   /\ witRes.res.witness.poly_eval_list_f
                        = Vec([e \in 1..(k * s) |->
                                table.values[PaddedIndices[((e - 1) \div s) + 1] * s
                                             + ((e - 1) % s) + 1]])
           /\ witRes.res.tag = "Err"
                => /\ witRes.res.err = "InvalidSegmentElementIndex"
                   /\ \E i \in 1..k : \E j \in 0..(s - 1) :
                        witRes.res.arg = PaddedIndices[i] * s + j
\* One index supplied where two are needed, and the witness is built.
C27_Witness ==
    /\ Padded
    /\ setupRes.pp.num_witness_segments = 2
    /\ Len(witRes.indices) = 1
    /\ witRes.indices[1] # 0
    /\ witRes.res.tag = "Ok"
====
